---------------------------- MODULE Spec2Model ----------------------------
(***************************************************************************)
(* JobFinder Pro (src/main.py): the Job record model, the SQLite store,    *)
(* the JobTech API client and the search orchestrator of the main window,  *)
(* as state machines.                                                      *)
(*                                                                         *)
(*   Spec        the main window: the UI thread, the background search     *)
(*               workers and Tk's queue of `after` callbacks               *)
(*   SpecFair    Spec with the scheduling the threads and the main loop    *)
(*               give                                                      *)
(*   SpecOrts    searches of one query under any location list and filters *)
(*   SpecStore   DatabaseManager's saved jobs under arbitrary calls        *)
(*   SpecHistory DatabaseManager's search history under arbitrary calls    *)
(*   SpecClient  JobAPIClient.search under arbitrary arguments             *)
(*   SpecJob     Job.from_api under arbitrary raw records                  *)
(***************************************************************************)
EXTENDS Integers, Sequences, FiniteSets, TLC

(***************************************************************************)
(* Bounds of the model and constants of the program.                       *)
(***************************************************************************)
\* searches started in one run of the main window
MaxSearches == 2
\* "Empty search query" warnings logged in one run
MaxWarnings == 1
\* seconds the store's clock advances in one run
MaxTime == 2
\* calls made on the store in one run
MaxCalls == 4
\* length of the location lists handed to the client
MaxOrts == 2
MaxRows == 3
\* days before each sample date that are sample dates too
MaxDayOffset == 2
\* Config.MAX_RESULTS
MAX_RESULTS == 100

VARIABLES
    \* ---- main window (JobFinderPro) ----
    entry_yrke,       \* text of the search entry
    selected_orts,    \* self.selected_orts
    current_filters,  \* self.current_filters
    all_jobs,         \* self.all_jobs
    btn_sok,          \* state of the search button: "normal" | "disabled"
    results_area,     \* what the results area and the stats label show
    history_frame,    \* the queries on the history buttons
    workers,          \* the search threads: search id -> locals, position, and
                      \* whether the thread has assigned self.all_jobs
    after_queue,      \* Tk's pending `after(0, ...)` callbacks, oldest first
    requests,         \* the GET requests sent, oldest first
    warnings,         \* number of "Empty search query" log lines
    ui,               \* per search: what the presentation layer was told
    \* ---- store (DatabaseManager) ----
    search_history,   \* table search_history, in rowid order
    saved_jobs,       \* table saved_jobs, in rowid order
    db_clock,         \* CURRENT_TIMESTAMP, in seconds
    db_call,          \* the last call made on the store and what it returned
    db_calls,         \* number of calls made on the store
    db_log,           \* the save_job and delete_job calls that returned, oldest first
    \* ---- client harness (JobAPIClient.search) ----
    api_call,         \* the arguments of a call and its outcome
    \* ---- record harness (Job.from_api) ----
    hit,              \* a raw record
    job_result        \* the outcome of Job.from_api(hit)

appVars == <<entry_yrke, selected_orts, current_filters, all_jobs, btn_sok,
             results_area, history_frame, workers, after_queue, requests, warnings, ui>>
storeVars == <<search_history, saved_jobs, db_clock, db_call, db_calls, db_log>>
clientVars == <<api_call>>
jobVars == <<hit, job_result>>
vars == <<appVars, storeVars, clientVars, jobVars>>

(***************************************************************************)
(* JSON values and Python dicts.  A dict is a function whose domain is its *)
(* set of keys; a JSON value is null, a string or a dict.                  *)
(***************************************************************************)
Null == [t |-> "null"]
Str(s) == [t |-> "str", v |-> s]
Dict(d) == [t |-> "dict", v |-> d]
EmptyDict == [k \in {} |-> Null]

\* dict.get(key, default)
Get(d, key, default) == IF key \in DOMAIN d THEN d[key] ELSE default

\* dict.update(other), as a value
Update(d, other) ==
    [k \in DOMAIN d \cup DOMAIN other |-> IF k \in DOMAIN other THEN other[k] ELSE d[k]]

IsDict(x) == x.t = "dict"

(***************************************************************************)
(* Job (the dataclass) and Job.from_api.                                   *)
(***************************************************************************)
JobFields == {"id", "title", "company", "location", "url", "published_date",
              "deadline", "description", "salary", "employment_type", "working_hours"}

\* the raw key each field is read from, and the nested key below it ("" if none)
TopKey(f) ==
    CASE f = "id" -> "id"
      [] f = "title" -> "headline"
      [] f = "company" -> "employer"
      [] f = "location" -> "workplace_address"
      [] f = "url" -> "webpage_url"
      [] f = "published_date" -> "publication_date"
      [] f = "deadline" -> "application_deadline"
      [] f = "description" -> "description"
      [] f = "salary" -> "salary_description"
      [] f = "employment_type" -> "employment_type"
      [] f = "working_hours" -> "working_hours_type"

NestedKey(f) ==
    CASE f = "company" -> "name"
      [] f = "location" -> "municipality"
      [] f = "description" -> "text"
      [] f \in {"employment_type", "working_hours"} -> "label"
      [] OTHER -> ""

\* the default each extraction names
FieldDefault(f) ==
    CASE f = "title" -> Str("Utan titel")
      [] f = "company" -> Str("Okand arbetsgivare")
      [] f = "location" -> Str("Plats ej angiven")
      [] OTHER -> Str("")

\* hit.get(top, {}).get(nested, default) raises AttributeError when the value
\* under `top` is not a dict (None has no attribute 'get')
FieldRaises(h, f) ==
    /\ NestedKey(f) # ""
    /\ ~IsDict(Get(h, TopKey(f), Dict(EmptyDict)))

\* one keyword argument of cls(...): the value the field gets when nothing raises
FieldValue(h, f) ==
    IF NestedKey(f) = ""
    THEN Get(h, TopKey(f), FieldDefault(f))
    ELSE Get(Get(h, TopKey(f), Dict(EmptyDict)).v, NestedKey(f), FieldDefault(f))

from_api(h) ==
    IF \E f \in JobFields : FieldRaises(h, f)
    THEN [exc |-> "AttributeError", job |-> [f \in JobFields |-> Null]]
    ELSE [exc |-> "none", job |-> [f \in JobFields |-> FieldValue(h, f)]]


(***************************************************************************)
(* Raw records for the harness of Job.from_api: every key is absent, null  *)
(* or holds a value; a nested object may also be empty or hold a null.     *)
(***************************************************************************)
SimpleOpts == {"absent", "null", "value"}
NestedOpts == {"absent", "null", "empty", "inner_null", "value"}
NestedFields == {f \in JobFields : NestedKey(f) # ""}
\* the plain fields that are varied one by one; the others vary together
VariedFields == {"id"}

RawValue(f, o) ==
    CASE o = "null" -> Null
      [] o = "empty" -> Dict(EmptyDict)
      [] o = "inner_null" -> Dict([k \in {NestedKey(f)} |-> Null])
      [] o = "value" /\ NestedKey(f) # "" -> Dict([k \in {NestedKey(f)} |-> Str("x")])
      [] OTHER -> Str("x")

\* the raw record in which field f's key has the shape opt[f]
RawRecord(opt) ==
    LET present == {f \in JobFields : opt[f] # "absent"}
    IN  [k \in {TopKey(f) : f \in present} |->
            LET f == CHOOSE g \in present : TopKey(g) = k IN RawValue(f, opt[f])]

RawOptions ==
    {[f \in JobFields |-> IF f \in NestedFields THEN n[f]
                          ELSE IF f \in VariedFields THEN v[f] ELSE rest] :
        n \in [NestedFields -> NestedOpts], v \in [VariedFields -> SimpleOpts],
        rest \in SimpleOpts}

NoJobResult == [done |-> FALSE, exc |-> "none", job |-> [f \in JobFields |-> Null]]

JobIdle == hit = EmptyDict /\ job_result = NoJobResult

\* the call Job.from_api(hit)
FromApiCall ==
    /\ ~job_result.done
    /\ job_result' = [done |-> TRUE, exc |-> from_api(hit).exc, job |-> from_api(hit).job]
    /\ UNCHANGED <<hit, appVars, storeVars, clientVars>>

(***************************************************************************)
(* Dates.  datetime.now() is a day, held as its proleptic Gregorian        *)
(* ordinal; subtracting a timedelta is arithmetic on the ordinal, and      *)
(* strftime('%Y-%m-%d') writes the ordinal's year, month and day, held as  *)
(* <<year, month, day>>.                                                   *)
(***************************************************************************)
IsLeap(y) == y % 4 = 0 /\ (y % 100 # 0 \/ y % 400 = 0)

DaysInMonth(y, m) ==
    CASE m = 2 -> IF IsLeap(y) THEN 29 ELSE 28
      [] m \in {4, 6, 9, 11} -> 30
      [] OTHER -> 31

DaysBeforeMonth(y, m) ==
    LET before[k \in 1..12] == IF k = 1 THEN 0 ELSE before[k - 1] + DaysInMonth(y, k - 1)
    IN  before[m]

DaysBeforeYear(y) ==
    LET p == y - 1 IN p * 365 + (p \div 4) - (p \div 100) + (p \div 400)

\* date(y, m, d).toordinal()
Ymd2Ord(ymd) == DaysBeforeYear(ymd[1]) + DaysBeforeMonth(ymd[1], ymd[2]) + ymd[3]

\* date.fromordinal(n), as strftime('%Y-%m-%d') writes it
Ord2Ymd(ord) ==
    LET n0 == ord - 1
        n400 == n0 \div 146097
        r400 == n0 % 146097
        n100 == r400 \div 36524
        r100 == r400 % 36524
        n4 == r100 \div 1461
        r4 == r100 % 1461
        n1 == r4 \div 365
        n == r4 % 365
        year == n400 * 400 + 1 + n100 * 100 + n4 * 4 + n1
        leap == n1 = 3 /\ (n4 # 24 \/ n100 = 3)
        lm == IF leap THEN 1 ELSE 0
        DBM(m) == CASE m = 1 -> 0 [] m = 2 -> 31
                    [] OTHER -> DaysBeforeMonth(2001, m) + lm
        guess == (n + 50) \div 32
        month == IF DBM(guess) > n THEN guess - 1 ELSE guess
    IN  IF n1 = 4 \/ n100 = 4
        THEN <<year - 1, 12, 31>>
        ELSE <<year, month, n - DBM(month) + 1>>

\* the day after the one asked for
DaysAgoOffByOne(today, days) == Ord2Ymd(today - days + 1)

\* (datetime.now() - timedelta(days=days)).strftime('%Y-%m-%d')
DaysAgo(today, days) == Ord2Ymd(today - days)

(***************************************************************************)
(* JobAPIClient: the parameters of the GET request.                        *)
(***************************************************************************)
\* `limit: int = None`: the argument left out
NoLimit == -1

\* the locations joined last to first
RECURSIVE JoinReversed(_)
JoinReversed(locations) ==
    IF Len(locations) = 0 THEN <<>>
    ELSE IF Len(locations) = 1 THEN locations[1]
    ELSE JoinReversed(Tail(locations)) \o <<",">> \o locations[1]

\* ','.join(locations)
RECURSIVE Join(_)
Join(locations) ==
    IF Len(locations) = 0 THEN <<>>
    ELSE IF Len(locations) = 1 THEN locations[1]
    ELSE locations[1] \o <<",">> \o Join(Tail(locations))

\* the 'working-hours-type' part of _build_filter_params
OmfattningParams(filters) ==
    IF Get(filters, "omfattning", "None") = "heltid"
    THEN [k \in {"working-hours-type"} |-> "heltid"]
    ELSE IF Get(filters, "omfattning", "None") = "deltid"
    THEN [k \in {"working-hours-type"} |-> "deltid"]
    ELSE EmptyDict

\* the 'published-after' part: filters['publicerad'] raises KeyError when the
\* key is missing, since filters.get('publicerad') is then None, not 'alla'
PubliceradRaises(filters) ==
    /\ Get(filters, "publicerad", "None") # "alla"
    /\ "publicerad" \notin DOMAIN filters

PubliceradParams(filters, today) ==
    IF Get(filters, "publicerad", "None") = "alla" THEN EmptyDict
    ELSE LET period == filters["publicerad"]
         IN  CASE period = "idag" -> [k \in {"published-after"} |-> DaysAgo(today, 0)]
               [] period = "7dagar" -> [k \in {"published-after"} |-> DaysAgo(today, 7)]
               [] period = "30dagar" -> [k \in {"published-after"} |-> DaysAgo(today, 30)]
               [] OTHER -> EmptyDict

\* JobAPIClient._build_filter_params
build_filter_params(filters, today) ==
    IF PubliceradRaises(filters)
    THEN [exc |-> "KeyError", params |-> EmptyDict]
    ELSE [exc |-> "none",
          params |-> Update(OmfattningParams(filters), PubliceradParams(filters, today))]

\* the first lines of JobAPIClient.search
BaseParams(query, limit) ==
    [k \in {"q", "limit"} |->
        IF k = "q" THEN query
        ELSE IF limit = NoLimit \/ limit = 0 THEN MAX_RESULTS ELSE limit]

MunicipalityParams(locations) ==
    IF Len(locations) > 0
    THEN [k \in {"municipality"} |-> Join(locations)]
    ELSE EmptyDict

\* JobAPIClient.search up to the GET: the parameters, or the exception raised
\* while they are built
search_params(query, locations, filters, limit, today) ==
    LET p == Update(BaseParams(query, limit), MunicipalityParams(locations))
    IN  IF DOMAIN filters = {} THEN [exc |-> "none", params |-> p]
        ELSE LET fp == build_filter_params(filters, today)
             IN  IF fp.exc # "none" THEN [exc |-> fp.exc, params |-> EmptyDict]
                 ELSE [exc |-> "none", params |-> Update(p, fp.params)]

(***************************************************************************)
(* Arguments for the harness of JobAPIClient.search.                       *)
(***************************************************************************)
SampleQueries == {<<"d", "e", "v">>, <<"a">>}
Orts == {<<"S", "t">>, <<"U">>}
OrtLists == UNION {[1..n -> Orts] : n \in 0..MaxOrts}
SampleLimits == {NoLimit, 0, 5}
AnchorDates == {<<2024, 6, 15>>, <<2024, 3, 2>>, <<2024, 1, 3>>,
                <<2023, 3, 2>>, <<2100, 3, 2>>, <<2000, 3, 2>>}
SampleDays == {Ymd2Ord(a) - k : a \in AnchorDates, k \in 0..MaxDayOffset}

\* a filter dict: each key left out or set to one of its values
FilterDict(o, p, s) ==
    [k \in ({"omfattning" : x \in {o} \ {"absent"}}
            \cup {"publicerad" : x \in {p} \ {"absent"}}
            \cup {"sort" : x \in {s} \ {"absent"}}) |->
        CASE k = "omfattning" -> o [] k = "publicerad" -> p [] OTHER -> s]

SampleFilters ==
    {FilterDict(o, p, s) : o \in {"absent", "alla", "heltid", "deltid"},
                           p \in {"absent", "alla", "idag", "7dagar", "30dagar"},
                           s \in {"absent", "relevans"}}

NoApiCall == [done |-> FALSE, query |-> <<>>, locations |-> <<>>, filters |-> EmptyDict,
              limit |-> NoLimit, today |-> 0, exc |-> "none", params |-> EmptyDict]

ClientIdle == api_call = NoApiCall

\* the call self.api.search(query, locations, filters, limit), up to the GET
ClientSearch ==
    /\ ~api_call.done
    /\ LET r == search_params(api_call.query, api_call.locations, api_call.filters,
                              api_call.limit, api_call.today)
       IN  api_call' = [api_call EXCEPT !.done = TRUE, !.exc = r.exc, !.params = r.params]
    /\ UNCHANGED <<appVars, storeVars, jobVars>>

(***************************************************************************)
(* DatabaseManager.  A table is the sequence of its rows in rowid order.   *)
(* Every method opens its own connection and commits, so a call is one     *)
(* step; a call on storage that is unavailable raises and writes nothing.  *)
(***************************************************************************)
JobStatus == {"new", "saved", "applied", "interview", "rejected", "accepted"}

\* the dataclass' fields in declaration order, the order asdict() keeps
JobFieldOrder == <<"id", "title", "company", "location", "url", "published_date",
                   "deadline", "description", "salary", "employment_type", "working_hours">>

\* json.dumps: the text of a value
JsonText(v) == [json |-> v]

\* json.loads: the value of a text
JsonValue(text) == text.json

\* json.dumps(job.to_dict()): the members of the object, in field order
DumpJob(job) == JsonText([i \in 1..Len(JobFieldOrder) |-> <<JobFieldOrder[i], job[JobFieldOrder[i]]>>])

\* Job(**json.loads(data))
LoadJob(data) ==
    LET members == JsonValue(data)
    IN  [f \in {members[i][1] : i \in DOMAIN members} |->
            LET i == CHOOSE j \in DOMAIN members : members[j][1] = f IN members[i][2]]

\* INSERT INTO search_history (query, locations, filters): id and timestamp default
HistoryRow(table, query, locations, filters, now) ==
    [id |-> IF Len(table) = 0 THEN 1 ELSE table[Len(table)].id + 1,
     query |-> query, locations |-> JsonText(locations), filters |-> JsonText(filters),
     timestamp |-> now]

\* DatabaseManager.save_search: the table after the INSERT
save_search(table, query, locations, filters, now) ==
    Append(table, HistoryRow(table, query, locations, filters, now))

\* DISTINCT on the query text alone: a row with an earlier row's query is dropped
RECURSIVE DistinctByQuery(_)
DistinctByQuery(rows) ==
    IF Len(rows) = 0 THEN <<>>
    ELSE LET front == DistinctByQuery(SubSeq(rows, 1, Len(rows) - 1))
             last == rows[Len(rows)]
         IN  IF \E i \in DOMAIN front : front[i].query = last.query THEN front
             ELSE Append(front, last)

\* SELECT DISTINCT: a row equal to an earlier one is dropped
RECURSIVE Distinct(_)
Distinct(rows) ==
    IF Len(rows) = 0 THEN <<>>
    ELSE LET front == Distinct(SubSeq(rows, 1, Len(rows) - 1))
             last == rows[Len(rows)]
         IN  IF \E i \in DOMAIN front : front[i] = last THEN front ELSE Append(front, last)

\* the rows left in the order they were inserted
ByRowid(rows) == rows

\* ORDER BY timestamp DESC: a stable sort of the distinct rows
RECURSIVE ByTimestampDesc(_)
ByTimestampDesc(rows) ==
    IF Len(rows) = 0 THEN <<>>
    ELSE LET newest == CHOOSE i \in DOMAIN rows :
                          /\ \A j \in DOMAIN rows : rows[j].timestamp <= rows[i].timestamp
                          /\ \A j \in 1..(i - 1) : rows[j].timestamp < rows[i].timestamp
         IN  <<rows[newest]>> \o
             ByTimestampDesc([k \in 1..(Len(rows) - 1) |->
                                 IF k < newest THEN rows[k] ELSE rows[k + 1]])

\* DatabaseManager.get_search_history; a negative LIMIT is no limit
get_search_history(table, limit) ==
    LET selected == [i \in DOMAIN table |->
                        [query |-> table[i].query, locations |-> table[i].locations,
                         timestamp |-> table[i].timestamp]]
        sorted == ByTimestampDesc(Distinct(selected))
        rows == SubSeq(sorted, 1, IF 0 <= limit /\ limit < Len(sorted)
                                  THEN limit ELSE Len(sorted))
    IN  [i \in DOMAIN rows |->
            [query |-> rows[i].query, locations |-> JsonValue(rows[i].locations),
             timestamp |-> rows[i].timestamp]]

SavedRow(job, status, notes, now) ==
    [job_id |-> job["id"], title |-> job["title"], company |-> job["company"],
     location |-> job["location"], url |-> job["url"], status |-> status,
     notes |-> notes, saved_date |-> now, data |-> DumpJob(job)]

\* the rows INSERT OR REPLACE deletes: those holding the new row's primary key
WithoutKey(table, job_id) == SelectSeq(table, LAMBDA r : r.job_id # job_id)

\* save_job as a plain INSERT that keeps the row already holding the key
save_job_keeping_old(table, job, status, notes, now) ==
    Append(table, SavedRow(job, status, notes, now))

\* save_job replacing the row of the key but keeping the status it had
save_job_keeping_status(table, job, status, notes, now) ==
    LET old == SelectSeq(table, LAMBDA r : r.job_id = job["id"])
    IN  Append(WithoutKey(table, job["id"]),
               SavedRow(job, IF Len(old) = 0 THEN status ELSE old[1].status, notes, now))

\* DatabaseManager.save_job: the table after INSERT OR REPLACE
save_job(table, job, status, notes, now) ==
    Append(WithoutKey(table, job["id"]), SavedRow(job, status, notes, now))

\* delete_job emptying the table
delete_job_all(table, job_id) == <<>>

\* DatabaseManager.delete_job: the table after the DELETE
delete_job(table, job_id) == WithoutKey(table, job_id)

\* ORDER BY saved_date DESC: a stable sort of the scanned rows
RECURSIVE BySavedDateDesc(_)
BySavedDateDesc(rows) ==
    IF Len(rows) = 0 THEN <<>>
    ELSE LET newest == CHOOSE i \in DOMAIN rows :
                          /\ \A j \in DOMAIN rows : rows[j].saved_date <= rows[i].saved_date
                          /\ \A j \in 1..(i - 1) : rows[j].saved_date < rows[i].saved_date
         IN  <<rows[newest]>> \o
             BySavedDateDesc([k \in 1..(Len(rows) - 1) |->
                                 IF k < newest THEN rows[k] ELSE rows[k + 1]])

\* DatabaseManager.get_saved_jobs; status "None" is the argument left out
get_saved_jobs(table, status) ==
    LET rows == IF status # "None"
                THEN SelectSeq(table, LAMBDA r : r.status = status)
                ELSE table
        sorted == BySavedDateDesc(rows)
    IN  [i \in 1..Len(sorted) |-> LoadJob(sorted[i].data)]

(***************************************************************************)
(* Calls for the harness of DatabaseManager.                               *)
(***************************************************************************)
BlankJob == [f \in JobFields |-> Str("")]
SampleJobs == {[BlankJob EXCEPT !["id"] = Str(i), !["title"] = Str(t)] :
                  i \in {"", "j1", "j2"}, t \in {"t1", "t2"}}
SampleStatuses == {"saved", "applied"}
SampleNotes == {"n"}

\* a call: its arguments, what it raised and returned, and whether the table
\* held the job's key when it was made
NoDbCall == [op |-> "none", job |-> BlankJob, status |-> "None", limit |-> 0,
             exc |-> "none", existed |-> FALSE, result |-> <<>>]

\* the entry a returned save_job or delete_job leaves in the log
Logged(op, job_id, status) == [op |-> op, job_id |-> job_id, status |-> status]

HoldsKey(table, job_id) == \E i \in DOMAIN table : table[i].job_id = job_id

StoreIdle ==
    /\ search_history = <<>>
    /\ saved_jobs = <<>>
    /\ db_clock = 0
    /\ db_call = NoDbCall
    /\ db_calls = 0
    /\ db_log = <<>>

\* a second passes
StoreTick ==
    /\ db_clock < MaxTime
    /\ db_clock' = db_clock + 1
    /\ UNCHANGED <<search_history, saved_jobs, db_call, db_calls, db_log, appVars,
                   clientVars, jobVars>>

\* self.db.save_job(job, status, notes)
StoreSaveJob ==
    /\ db_calls < MaxCalls
    /\ \E job \in SampleJobs, status \in SampleStatuses, notes \in SampleNotes, ok \in BOOLEAN :
          /\ saved_jobs' = IF ok THEN save_job(saved_jobs, job, status, notes, db_clock)
                           ELSE saved_jobs
          /\ db_call' = [NoDbCall EXCEPT !.op = "save_job", !.job = job, !.status = status,
                            !.existed = HoldsKey(saved_jobs, job["id"]),
                            !.exc = IF ok THEN "none" ELSE "OperationalError"]
          /\ db_log' = IF ok THEN Append(db_log, Logged("save_job", job["id"], status))
                       ELSE db_log
    /\ db_calls' = db_calls + 1
    /\ UNCHANGED <<search_history, db_clock, appVars, clientVars, jobVars>>

\* self.db.delete_job(job_id)
StoreDeleteJob ==
    /\ db_calls < MaxCalls
    /\ \E job \in {[BlankJob EXCEPT !["id"] = j["id"]] : j \in SampleJobs}, ok \in BOOLEAN :
          /\ saved_jobs' = IF ok THEN delete_job(saved_jobs, job["id"]) ELSE saved_jobs
          /\ db_call' = [NoDbCall EXCEPT !.op = "delete_job", !.job = job,
                            !.existed = HoldsKey(saved_jobs, job["id"]),
                            !.exc = IF ok THEN "none" ELSE "OperationalError"]
          /\ db_log' = IF ok THEN Append(db_log, Logged("delete_job", job["id"], "None"))
                       ELSE db_log
    /\ db_calls' = db_calls + 1
    /\ UNCHANGED <<search_history, db_clock, appVars, clientVars, jobVars>>

\* self.db.get_saved_jobs(status)
StoreGetSavedJobs ==
    /\ db_calls < MaxCalls
    /\ \E status \in SampleStatuses \cup {"None"}, ok \in BOOLEAN :
          db_call' = [NoDbCall EXCEPT !.op = "get_saved_jobs", !.status = status,
                         !.exc = IF ok THEN "none" ELSE "OperationalError",
                         !.result = IF ok THEN get_saved_jobs(saved_jobs, status) ELSE <<>>]
    /\ db_calls' = db_calls + 1
    /\ UNCHANGED <<search_history, saved_jobs, db_clock, db_log, appVars, clientVars, jobVars>>

\* the searches recorded and the limits asked for
HistoryQueries == {<<"a">>, <<"b">>}
HistoryOrts == {<<>>, <<<<"U">>>>}
HistoryFilters == {EmptyDict, FilterDict("heltid", "7dagar", "relevans")}
HistoryLimits == {0, 1, 2, 15, 50}

\* self.db.save_search(SearchQuery(query, locations, filters))
StoreSaveSearch ==
    /\ Len(search_history) < MaxRows
    /\ \E query \in HistoryQueries, locations \in HistoryOrts,
          filters \in HistoryFilters, ok \in BOOLEAN :
          /\ search_history' = IF ok THEN save_search(search_history, query, locations,
                                                      filters, db_clock)
                               ELSE search_history
          /\ db_call' = [NoDbCall EXCEPT !.op = "save_search",
                            !.exc = IF ok THEN "none" ELSE "OperationalError"]
    /\ UNCHANGED <<saved_jobs, db_clock, db_calls, db_log, appVars, clientVars, jobVars>>

\* self.db.get_search_history(limit)
StoreGetSearchHistory ==
    /\ \E limit \in HistoryLimits, ok \in BOOLEAN :
          db_call' = [NoDbCall EXCEPT !.op = "get_search_history", !.limit = limit,
                         !.exc = IF ok THEN "none" ELSE "OperationalError",
                         !.result = IF ok THEN get_search_history(search_history, limit)
                                    ELSE <<>>]
    /\ UNCHANGED <<search_history, saved_jobs, db_clock, db_calls, db_log, appVars,
                   clientVars, jobVars>>

(***************************************************************************)
(* JobFinderPro: the main window.  The UI thread runs one handler or one   *)
(* `after` callback at a time; every search runs _search_worker on a       *)
(* thread of its own, a statement group at a time.                         *)
(***************************************************************************)
Whitespace == {" ", "\t", "\n"}

\* str.strip()
RECURSIVE LStrip(_)
LStrip(s) == IF Len(s) > 0 /\ s[1] \in Whitespace THEN LStrip(Tail(s)) ELSE s
RECURSIVE RStrip(_)
RStrip(s) ==
    IF Len(s) > 0 /\ s[Len(s)] \in Whitespace THEN RStrip(SubSeq(s, 1, Len(s) - 1)) ELSE s
\* start_search reading the entry without .strip()
NoStrip(s) == s
Strip(s) == RStrip(LStrip(s))

\* limit=15 in load_history
HistoryShown == 15

\* FilterMenu.get_active_filters
ActiveFilters(omfattning, publicerad) ==
    [k \in {"omfattning", "publicerad", "distance", "salary", "sort"} |->
        CASE k = "omfattning" -> omfattning
          [] k = "publicerad" -> publicerad
          [] k = "distance" -> 50
          [] k = "salary" -> 0
          [] OTHER -> "relevans"]

\* a filter that keeps the jobs of the working hours asked for
filter_jobs_by_hours(jobs, filters) ==
    IF "omfattning" \in DOMAIN filters /\ filters["omfattning"] # "alla"
    THEN SelectSeq(jobs, LAMBDA j : j["working_hours"] = Str(filters["omfattning"]))
    ELSE jobs

\* JobFinderPro.filter_jobs
filter_jobs(jobs, filters) == jobs

\* what the results area and the stats label show
Shown(kind, jobs, total, error) == [kind |-> kind, jobs |-> jobs, total |-> total, error |-> error]

\* JobFinderPro._display_results: the results area after it
display_results(jobs, total) ==
    IF Len(jobs) = 0 THEN Shown("noresults", <<>>, total, "")
    ELSE Shown("results", jobs, total, "")

\* JobFinderPro._display_error: the results area after it
display_error(error) == Shown("error", <<>>, 0, error)

\* JobFinderPro.load_history: the queries on the history buttons
load_history(table) ==
    LET history == get_search_history(table, HistoryShown)
    IN  [i \in DOMAIN history |-> history[i].query]

\* the history buttons after _display_results: it returns before load_history
\* when there is no job to show
HistoryAfterDisplay(jobs, frame, table) ==
    IF Len(jobs) = 0 THEN frame ELSE load_history(table)

(***************************************************************************)
(* What the user types, picks and gets back from the network.              *)
(***************************************************************************)
SampleEntries == {<<" ">>, <<" ", "a", " ">>}
SampleMenuFilters == {ActiveFilters("heltid", "7dagar")}
SampleWorkerFilters ==
    {EmptyDict, ActiveFilters("alla", "alla"), ActiveFilters("deltid", "30dagar")}
AppToday == Ymd2Ord(<<2024, 6, 15>>)

FullOptions == [f \in JobFields |-> "value"]
FullHit(id) == [RawRecord(FullOptions) EXCEPT !["id"] = Str(id)]
SparseHit(id) ==
    [RawRecord([f \in JobFields |-> IF f = "id" THEN "value" ELSE "absent"])
        EXCEPT !["id"] = Str(id)]
NullEmployerHit(id) ==
    [RawRecord([FullOptions EXCEPT !["company"] = "null"]) EXCEPT !["id"] = Str(id)]

\* response.json(): a dict with 'hits' and 'total', or without them
Response(hits, total) ==
    [k \in {"hits", "total"} |-> IF k = "hits" THEN hits ELSE [v \in {"value"} |-> total]]
SampleResponses ==
    { Response(<<SparseHit("2"), FullHit("1")>>, 7),
      Response(<<NullEmployerHit("3")>>, 1),
      EmptyDict }
\* what self.session.get and raise_for_status raise, and what response.json
\* raises: search logs and re-raises either
TransportErrors == {"RequestException"}
ParseErrors == {"JSONDecodeError"}

(***************************************************************************)
(* State of the main window.                                               *)
(***************************************************************************)
SearchIds == 1..MaxSearches

NoWorker == [pc |-> "idle", query |-> <<>>, locations |-> <<>>, filters |-> EmptyDict,
             hits |-> <<>>, total |-> 0, jobs |-> <<>>, assigned |-> FALSE,
             exc |-> "none", e_bound |-> FALSE]
NoUi == [notified |-> "none", cb_exc |-> "none", reenabled |-> FALSE]

AppInitWith(orts, filters, text) ==
    /\ entry_yrke = text
    /\ selected_orts = orts
    /\ current_filters = filters
    /\ all_jobs = <<>>
    /\ btn_sok = "normal"
    /\ results_area = Shown("initial", <<>>, 0, "")
    /\ history_frame = <<>>
    /\ workers = [s \in SearchIds |-> NoWorker]
    /\ after_queue = <<>>
    /\ requests = <<>>
    /\ warnings = 0
    /\ ui = [s \in SearchIds |-> NoUi]

\* JobFinderPro.__init__
AppInit == AppInitWith(<<>>, EmptyDict, <<>>)

Started == {s \in SearchIds : workers[s].pc # "idle"}
InFlight == {s \in SearchIds : workers[s].pc \notin {"idle", "done"}}

(***************************************************************************)
(* Handlers of the UI thread.                                              *)
(***************************************************************************)
\* the user edits the search entry
TypeQuery ==
    /\ \E text \in SampleEntries : entry_yrke' = text
    /\ UNCHANGED <<selected_orts, current_filters, all_jobs, btn_sok, results_area,
                   history_frame, workers, after_queue, requests, warnings, ui,
                   storeVars, clientVars, jobVars>>

\* start_search once the entry holds `text`
StartSearchWith(text) ==
    LET query == Strip(text)
    IN  IF query = <<>>
        THEN /\ warnings < MaxWarnings
             /\ warnings' = warnings + 1
             /\ UNCHANGED <<all_jobs, btn_sok, results_area, workers>>
        ELSE /\ Started # SearchIds
             /\ LET s == CHOOSE t \in SearchIds \ Started :
                             \A u \in SearchIds \ Started : t <= u
                IN  workers' = [workers EXCEPT ![s] =
                        [NoWorker EXCEPT !.pc = "save_search", !.query = query,
                                         !.locations = selected_orts,
                                         !.filters = current_filters]]
             /\ results_area' = Shown("searching", <<>>, 0, "")
             /\ btn_sok' = "disabled"
             /\ UNCHANGED <<all_jobs, warnings>>

\* JobFinderPro.start_search (the search button, or Return in the entry)
start_search ==
    /\ StartSearchWith(entry_yrke)
    /\ UNCHANGED <<entry_yrke, selected_orts, current_filters, history_frame, after_queue,
                   requests, ui, storeVars, clientVars, jobVars>>

\* JobFinderPro.quick_search (a history button)
quick_search ==
    /\ \E i \in DOMAIN history_frame :
          /\ entry_yrke' = history_frame[i]
          /\ StartSearchWith(history_frame[i])
    /\ UNCHANGED <<selected_orts, current_filters, history_frame, after_queue,
                   requests, ui, storeVars, clientVars, jobVars>>

\* JobFinderPro.apply_filters (a radio button of the filter menu, or "Rensa")
apply_filters ==
    /\ \E filters \in SampleMenuFilters :
          /\ current_filters' = filters
          /\ IF Len(all_jobs) > 0
             THEN LET filtered == filter_jobs(all_jobs, filters)
                  IN  /\ results_area' = display_results(filtered, Len(all_jobs))
                      /\ history_frame' =
                            HistoryAfterDisplay(filtered, history_frame, search_history)
             ELSE UNCHANGED <<results_area, history_frame>>
    /\ UNCHANGED <<entry_yrke, selected_orts, all_jobs, btn_sok, workers, after_queue,
                   requests, warnings, ui, storeVars, clientVars, jobVars>>

\* the lambda of the try block: self._display_results(jobs, total)
RunDisplayResults(s) ==
    /\ results_area' = display_results(workers[s].jobs, workers[s].total)
    /\ history_frame' = HistoryAfterDisplay(workers[s].jobs, history_frame, search_history)
    /\ ui' = [ui EXCEPT ![s].notified = "results"]
    /\ UNCHANGED btn_sok

\* the lambda of the except block: self._display_error(str(e)).  It reads e
\* when it runs; once the worker has left the except block e is unbound and
\* the lambda raises NameError, which Tk reports and drops.
RunDisplayError(s) ==
    /\ IF workers[s].e_bound
       THEN /\ results_area' = display_error(workers[s].exc)
            /\ ui' = [ui EXCEPT ![s].notified = "error"]
       ELSE /\ ui' = [ui EXCEPT ![s].cb_exc = "NameError"]
            /\ UNCHANGED results_area
    /\ UNCHANGED <<btn_sok, history_frame>>

\* the lambda of the finally block: self.btn_sok.configure(state="normal", ...)
RunEnable(s) ==
    /\ btn_sok' = "normal"
    /\ ui' = [ui EXCEPT ![s].reenabled = TRUE]
    /\ UNCHANGED <<results_area, history_frame>>

\* Tk's main loop runs the oldest pending callback
RunCallback ==
    /\ Len(after_queue) > 0
    /\ LET cb == Head(after_queue)
       IN  CASE cb.fn = "display_results" -> RunDisplayResults(cb.sid)
             [] cb.fn = "display_error" -> RunDisplayError(cb.sid)
             [] OTHER -> RunEnable(cb.sid)
    /\ after_queue' = Tail(after_queue)
    /\ UNCHANGED <<entry_yrke, selected_orts, current_filters, all_jobs, workers,
                   requests, warnings, storeVars, clientVars, jobVars>>

(***************************************************************************)
(* JobFinderPro._search_worker, on the thread of search s.                 *)
(***************************************************************************)
\* self.after(0, callback), called on the worker's thread
After(fn, s) == Append(after_queue, [fn |-> fn, sid |-> s])

\* the worker going on to the API call although save_search raised
WorkerSaveSearchSwallowed(s) ==
    /\ workers[s].pc = "save_search"
    /\ \E ok \in BOOLEAN :
          /\ search_history' = IF ok THEN save_search(search_history, workers[s].query,
                                             workers[s].locations, workers[s].filters, db_clock)
                               ELSE search_history
          /\ workers' = [workers EXCEPT ![s].pc = "api_search"]
    /\ UNCHANGED <<entry_yrke, selected_orts, current_filters, all_jobs, btn_sok,
                   results_area, history_frame, after_queue, requests, warnings, ui,
                   saved_jobs, db_clock, db_call, db_calls, db_log, clientVars, jobVars>>

\* search_query = SearchQuery(...); self.db.save_search(search_query)
WorkerSaveSearch(s) ==
    /\ workers[s].pc = "save_search"
    /\ \E ok \in BOOLEAN :
          IF ok
          THEN /\ search_history' = save_search(search_history, workers[s].query,
                                        workers[s].locations, workers[s].filters, db_clock)
               /\ workers' = [workers EXCEPT ![s].pc = "api_search"]
          ELSE /\ workers' = [workers EXCEPT ![s].pc = "except", ![s].e_bound = TRUE,
                                             ![s].exc = "OperationalError"]
               /\ UNCHANGED search_history
    /\ UNCHANGED <<entry_yrke, selected_orts, current_filters, all_jobs, btn_sok,
                   results_area, history_frame, after_queue, requests, warnings, ui,
                   saved_jobs, db_clock, db_call, db_calls, db_log, clientVars, jobVars>>

\* result = self.api.search(query, locations, filters): the parameters are built,
\* the GET is sent, and it raises or returns; hits and total are read from the result
WorkerApiSearch(s) ==
    /\ workers[s].pc = "api_search"
    /\ LET r == search_params(workers[s].query, workers[s].locations, workers[s].filters,
                              NoLimit, AppToday)
       IN  IF r.exc # "none"
           THEN /\ workers' = [workers EXCEPT ![s].pc = "except", ![s].e_bound = TRUE,
                                              ![s].exc = r.exc]
                /\ UNCHANGED requests
           ELSE /\ requests' = Append(requests, [sid |-> s, params |-> r.params])
                /\ \/ \E e \in TransportErrors \cup ParseErrors :
                         workers' = [workers EXCEPT ![s].pc = "except", ![s].e_bound = TRUE,
                                                    ![s].exc = e]
                   \/ \E result \in SampleResponses :
                         workers' = [workers EXCEPT
                            ![s].pc = "convert",
                            ![s].hits = Get(result, "hits", <<>>),
                            ![s].total = Get(Get(result, "total", EmptyDict), "value", 0)]
    /\ UNCHANGED <<entry_yrke, selected_orts, current_filters, all_jobs, btn_sok,
                   results_area, history_frame, after_queue, warnings, ui,
                   storeVars, clientVars, jobVars>>

\* jobs = [Job.from_api(hit) for hit in hits]
ConvertHits(hits) == [i \in DOMAIN hits |-> from_api(hits[i]).job]

\* the new jobs added to the list held
AppendAllJobs(held, jobs) == held \o jobs

\* the worker leaving the list held as it is
KeepHeldJobs(held, jobs) == held

\* self.all_jobs = jobs: the list held after the assignment
AssignAllJobs(held, jobs) == jobs

\* the conversion of the hits and the assignment to self.all_jobs
WorkerConvert(s) ==
    /\ workers[s].pc = "convert"
    /\ IF \E i \in DOMAIN workers[s].hits : from_api(workers[s].hits[i]).exc # "none"
       THEN /\ workers' = [workers EXCEPT ![s].pc = "except", ![s].e_bound = TRUE,
                                          ![s].exc = "AttributeError"]
            /\ UNCHANGED all_jobs
       ELSE /\ workers' = [workers EXCEPT ![s].pc = "after_results",
                                          ![s].jobs = ConvertHits(workers[s].hits),
                                          ![s].assigned = TRUE]
            /\ all_jobs' = AssignAllJobs(all_jobs, ConvertHits(workers[s].hits))
    /\ UNCHANGED <<entry_yrke, selected_orts, current_filters, btn_sok, results_area,
                   history_frame, after_queue, requests, warnings, ui,
                   storeVars, clientVars, jobVars>>

\* self.after(0, lambda: self._display_results(jobs, total))
WorkerAfterResults(s) ==
    /\ workers[s].pc = "after_results"
    /\ after_queue' = After("display_results", s)
    /\ workers' = [workers EXCEPT ![s].pc = "finally"]
    /\ UNCHANGED <<entry_yrke, selected_orts, current_filters, all_jobs, btn_sok,
                   results_area, history_frame, requests, warnings, ui,
                   storeVars, clientVars, jobVars>>

\* except Exception as e: the log line and self.after(0, lambda: self._display_error(str(e)))
WorkerExcept(s) ==
    /\ workers[s].pc = "except"
    /\ after_queue' = After("display_error", s)
    /\ workers' = [workers EXCEPT ![s].pc = "except_exit"]
    /\ UNCHANGED <<entry_yrke, selected_orts, current_filters, all_jobs, btn_sok,
                   results_area, history_frame, requests, warnings, ui,
                   storeVars, clientVars, jobVars>>

\* the end of the except block unbinds e
WorkerExceptExit(s) ==
    /\ workers[s].pc = "except_exit"
    /\ workers' = [workers EXCEPT ![s].pc = "finally", ![s].e_bound = FALSE]
    /\ UNCHANGED <<entry_yrke, selected_orts, current_filters, all_jobs, btn_sok,
                   results_area, history_frame, after_queue, requests, warnings, ui,
                   storeVars, clientVars, jobVars>>

\* what is left of a thread that has ended: its frame is gone, and the lambdas
\* passed to self.after keep the cells they close over (jobs, total and e)
Ended(w) == [NoWorker EXCEPT !.pc = "done", !.jobs = w.jobs, !.total = w.total,
                             !.assigned = w.assigned, !.exc = w.exc,
                             !.e_bound = w.e_bound]

\* finally: self.after(0, lambda: self.btn_sok.configure(state="normal", ...))
WorkerFinally(s) ==
    /\ workers[s].pc = "finally"
    /\ after_queue' = After("enable", s)
    /\ workers' = [workers EXCEPT ![s] = Ended(workers[s])]
    /\ UNCHANGED <<entry_yrke, selected_orts, current_filters, all_jobs, btn_sok,
                   results_area, history_frame, requests, warnings, ui,
                   storeVars, clientVars, jobVars>>

WorkerStep(s) ==
    \/ WorkerSaveSearch(s)
    \/ WorkerApiSearch(s)
    \/ WorkerConvert(s)
    \/ WorkerAfterResults(s)
    \/ WorkerExcept(s)
    \/ WorkerExceptExit(s)
    \/ WorkerFinally(s)

(***************************************************************************)
(* The specifications.                                                     *)
(***************************************************************************)
AppNext ==
    \/ TypeQuery
    \/ start_search
    \/ quick_search
    \/ apply_filters
    \/ RunCallback
    \/ \E s \in SearchIds : WorkerStep(s)

Init == AppInit /\ StoreIdle /\ ClientIdle /\ JobIdle
Next == AppNext
Spec == Init /\ [][Next]_vars

\* every started thread runs on, and the main loop runs every pending callback
Fairness ==
    /\ \A s \in SearchIds : WF_vars(WorkerStep(s))
    /\ WF_vars(RunCallback)
SpecFair == Spec /\ Fairness

\* _search_worker(query, locations, filters) with any arguments: the main
\* window with any location list picked, any filters set and a query typed
InitOrts ==
    /\ \E orts \in OrtLists, filters \in SampleWorkerFilters, text \in SampleEntries :
          /\ AppInitWith(orts, filters, text)
          /\ Strip(text) # <<>>
    /\ StoreIdle /\ ClientIdle /\ JobIdle
NextOrts ==
    \/ start_search
    \/ RunCallback
    \/ \E s \in SearchIds : WorkerStep(s)
SpecOrts == InitOrts /\ [][NextOrts]_vars

AppIdle == AppInit

\* DatabaseManager.__init__ on a new file, then any calls
InitStore == AppIdle /\ StoreIdle /\ ClientIdle /\ JobIdle
NextStore ==
    \/ StoreTick
    \/ StoreSaveJob
    \/ StoreDeleteJob
    \/ StoreGetSavedJobs
SpecStore == InitStore /\ [][NextStore]_vars

\* the search history under any save_search and get_search_history calls
InitHistory == AppIdle /\ StoreIdle /\ ClientIdle /\ JobIdle
NextHistory ==
    \/ StoreTick
    \/ StoreSaveSearch
    \/ StoreGetSearchHistory
SpecHistory == InitHistory /\ [][NextHistory]_vars

\* one call of JobAPIClient.search with any arguments
InitClient ==
    /\ AppIdle /\ StoreIdle /\ JobIdle
    /\ \E q \in SampleQueries, l \in OrtLists, f \in SampleFilters,
          n \in SampleLimits, d \in SampleDays :
          api_call = [NoApiCall EXCEPT !.query = q, !.locations = l, !.filters = f,
                                       !.limit = n, !.today = d]
NextClient == ClientSearch
SpecClient == InitClient /\ [][NextClient]_vars

\* one call of Job.from_api with any raw record
InitJob ==
    /\ AppIdle /\ StoreIdle /\ ClientIdle
    /\ \E opt \in RawOptions : hit = RawRecord(opt)
    /\ job_result = NoJobResult
NextJob == FromApiCall
SpecJob == InitJob /\ [][NextJob]_vars

(***************************************************************************)
(* The claims.                                                             *)
(***************************************************************************)
\* the entries of a list of jobs that carry the id
WithId(jobs, id) == {i \in DOMAIN jobs : jobs[i]["id"] = id}

\* C1: right after a successful save_job(job), list_saved_jobs() with no status
\* filter holds exactly one entry whose id is job.id, whatever calls came before
C1_SaveThenListHoldsOne ==
    (db_call.op = "save_job" /\ db_call.exc = "none")
        => Cardinality(WithId(get_saved_jobs(saved_jobs, "None"), db_call.job["id"])) = 1

\* C1 witness: a save of an id that was already saved, with another job saved too
C1_Witness ==
    /\ db_call.op = "save_job" /\ db_call.exc = "none" /\ db_call.existed
    /\ Len(saved_jobs) = 2
    /\ Cardinality(WithId(get_saved_jobs(saved_jobs, "None"), db_call.job["id"])) = 1

\* a text with nothing but whitespace in it
Blank(text) == \A i \in DOMAIN text : text[i] \in Whitespace

\* C3: a search started while the entry is blank changes nothing but the log:
\* no worker, no history row, no request, the same all_jobs, button and display
C3_EmptyQueryRejected ==
    [][((start_search \/ quick_search) /\ Blank(entry_yrke'))
          => UNCHANGED <<all_jobs, btn_sok, results_area, history_frame, workers,
                         after_queue, requests, ui, current_filters, selected_orts,
                         search_history, saved_jobs>>]_vars

\* C3 witness: a whitespace-only query was rejected before any search ran
C3_Witness ==
    /\ warnings = 1
    /\ entry_yrke = <<" ">>
    /\ Started = {}
    /\ btn_sok = "normal"
    /\ search_history = <<>> /\ requests = <<>> /\ all_jobs = <<>>

\* C7: with only the working-hours option in the filters, building the
\* parameters raises nothing; 'heltid' gives working-hours-type = 'heltid',
\* and a value that is neither 'heltid' nor 'deltid' gives no working-hours-type
C7_WorkingHoursOnly ==
    (api_call.done /\ DOMAIN api_call.filters = {"omfattning"})
        => /\ api_call.exc = "none"
           /\ api_call.filters["omfattning"] = "heltid"
                 => /\ "working-hours-type" \in DOMAIN api_call.params
                    /\ api_call.params["working-hours-type"] = "heltid"
           /\ api_call.filters["omfattning"] \notin {"heltid", "deltid"}
                 => "working-hours-type" \notin DOMAIN api_call.params

\* <<year, month, day>> is a date of the calendar
IsDate(ymd) ==
    /\ ymd[2] \in 1..12
    /\ ymd[3] \in 1..DaysInMonth(ymd[1], ymd[2])

\* the date is the one `days` days before the day `today`
IsDaysBefore(ymd, today, days) == IsDate(ymd) /\ Ymd2Ord(ymd) = today - days

\* C8: with the recency option set, 'idag' gives published-after = today,
\* '7dagar' today minus 7 days, '30dagar' today minus 30 days, 'alla' no
\* published-after; '7dagar' on 2024-06-15 gives 2024-06-08
C8_PublishedAfter ==
    (api_call.done /\ "publicerad" \in DOMAIN api_call.filters)
        => LET period == api_call.filters["publicerad"]
               p == api_call.params
           IN  /\ api_call.exc = "none"
               /\ period = "alla" => "published-after" \notin DOMAIN p
               /\ period # "alla" => "published-after" \in DOMAIN p
               /\ period = "idag" => IsDaysBefore(p["published-after"], api_call.today, 0)
               /\ period = "7dagar" => IsDaysBefore(p["published-after"], api_call.today, 7)
               /\ period = "30dagar" => IsDaysBefore(p["published-after"], api_call.today, 30)
               /\ (period = "7dagar" /\ Ord2Ymd(api_call.today) = <<2024, 6, 15>>)
                     => p["published-after"] = <<2024, 6, 8>>

\* C8 witness: a call on 2024-06-15 asking for the last seven days got
\* 2024-06-08
C8_Witness ==
    /\ api_call.done
    /\ "publicerad" \in DOMAIN api_call.filters
    /\ api_call.filters["publicerad"] = "7dagar"
    /\ api_call.today = Ymd2Ord(<<2024, 6, 15>>)
    /\ api_call.params["published-after"] = <<2024, 6, 8>>

\* the field's source is missing from the raw record: its key or nested key
\* is absent or null
Missing(h, f) ==
    \/ TopKey(f) \notin DOMAIN h
    \/ h[TopKey(f)].t = "null"
    \/ /\ NestedKey(f) # ""
       /\ h[TopKey(f)].t = "dict"
       /\ \/ NestedKey(f) \notin DOMAIN h[TopKey(f)].v
          \/ h[TopKey(f)].v[NestedKey(f)].t = "null"

\* C10: from_api raises nothing, and every field whose source is missing
\* holds its default
C10_FromApiNeverFails ==
    job_result.done
        => /\ job_result.exc = "none"
           /\ \A f \in JobFields : Missing(hit, f) => job_result.job[f] = FieldDefault(f)

\* search s has a callback waiting in Tk's queue
Pending(s) == \E i \in DOMAIN after_queue : after_queue[i].sid = s

\* the thread of search s has ended and all its callbacks have run
Finished(s) == workers[s].pc = "done" /\ ~Pending(s)

\* the requests search s has sent
RequestsOf(s) == {i \in DOMAIN requests : requests[i].sid = s}

\* search s is in, or has been through, its except block
Failed(s) == workers[s].pc \in {"except", "except_exit", "finally", "done"}
                /\ workers[s].exc # "none"

\* C2: a search whose GET raised a transport error ends with an error
\* notification delivered, all_jobs never assigned by it, and the search
\* button re-enabled
C2_TransportFailureEndsFailed ==
    \A s \in SearchIds :
        (Finished(s) /\ workers[s].exc \in TransportErrors)
            => /\ ui[s].notified = "error"
               /\ ~workers[s].assigned
               /\ ui[s].reenabled

\* the history write of search s has succeeded
Saved(s) == workers[s].pc \notin {"idle", "save_search"}
               /\ workers[s].exc # "OperationalError"

\* C4: the history row of a search is written before its request is sent; a
\* search whose history write failed is in Failed and sends no request; a
\* search whose request failed has its row in the history
C4_HistoryBeforeRequest ==
    /\ Len(search_history) = Cardinality({s \in SearchIds : Saved(s)})
    /\ \A s \in SearchIds : RequestsOf(s) # {} => Saved(s)
    /\ \A s \in SearchIds :
          workers[s].exc = "OperationalError" => Failed(s) /\ RequestsOf(s) = {}
    /\ \A s \in SearchIds :
          workers[s].exc \in TransportErrors \cup ParseErrors
              => /\ Failed(s) /\ Saved(s)
                 /\ \A i \in RequestsOf(s) : \E j \in DOMAIN search_history :
                       search_history[j].query = requests[i].params["q"]

\* C4 witness: one search failed at the history write and sent nothing, the
\* other failed at the GET and is in the history
C4_Witness ==
    \E s, t \in SearchIds :
        /\ Finished(s) /\ workers[s].exc = "OperationalError" /\ RequestsOf(s) = {}
        /\ Finished(t) /\ workers[t].exc \in TransportErrors /\ RequestsOf(t) # {}
        /\ Len(search_history) = 1

\* the jobs are the records from_api makes of the hits, one by one and in order
Converted(hits, jobs) ==
    /\ Len(jobs) = Len(hits)
    /\ \A i \in DOMAIN hits :
          from_api(hits[i]).exc = "none" /\ jobs[i] = from_api(hits[i]).job

\* C5: the step that ends a successful conversion leaves all_jobs equal to the
\* converted hits alone; the result notification of a search shows that list
\* and its total; every search that ended without an exception was so notified
C5_SuccessReplacesList ==
    /\ [][\A s \in SearchIds :
            (workers[s].pc = "convert" /\ workers'[s].pc = "after_results")
                => /\ Converted(workers[s].hits, all_jobs')
                   /\ workers'[s].jobs = all_jobs'
                   /\ workers'[s].total = workers[s].total]_vars
    /\ [][\A s \in SearchIds :
            (ui[s].notified = "none" /\ ui'[s].notified = "results")
                => /\ workers[s].assigned
                   /\ results_area'.jobs = workers[s].jobs
                   /\ results_area'.total = workers[s].total]_vars
    /\ [](\A s \in SearchIds :
            (Finished(s) /\ workers[s].exc = "none") => ui[s].notified = "results")

\* C5 witness: two searches succeeded with two jobs each, and the list held
\* and shown is the two jobs of one response
C5_Witness ==
    /\ \A s \in SearchIds : Finished(s) /\ ui[s].notified = "results"
                              /\ Len(workers[s].jobs) = 2
    /\ Len(all_jobs) = 2
    /\ results_area = Shown("results", all_jobs, 7, "")

\* C6: the search button is re-enabled for a search only after that search's
\* result or error notification, as the last step of the search
C6_ReenabledAfterNotification ==
    \A s \in SearchIds :
        ui[s].reenabled => /\ ui[s].notified \in {"results", "error"}
                           /\ Finished(s)

\* every search that was started has its button re-enabled in the end
C6_EventuallyReenabled ==
    \A s \in SearchIds : (workers[s].pc # "idle") ~> ui[s].reenabled

\* the re-enable of a search runs once its thread has ended and its other
\* callback has run, and nothing of the search follows it
C6_ReenableIsLast ==
    /\ [](\A s \in SearchIds : ui[s].reenabled => Finished(s))
    /\ [][\A s \in SearchIds : ui[s].reenabled => ui'[s] = ui[s]]_vars

\* the locations joined by commas, first to last
JoinedInOrder(locations) ==
    LET joined[n \in 0..Len(locations)] ==
            IF n = 0 THEN <<>>
            ELSE IF n = 1 THEN locations[1]
            ELSE joined[n - 1] \o <<",">> \o locations[n]
    IN  joined[Len(locations)]

\* the filters the window starts with, and those of the cleared filter menu
DefaultFilters == {EmptyDict, ActiveFilters("alla", "alla")}

\* the parameters of every request sent are those of the claim
C9_Params ==
    \A i \in DOMAIN requests :
        LET p == requests[i].params
        IN  /\ p["q"] = Strip(entry_yrke)
            /\ p["limit"] = MAX_RESULTS
            /\ (selected_orts = <<>> /\ current_filters \in DefaultFilters)
                  => DOMAIN p = {"q", "limit"}
            /\ selected_orts = <<>> => "municipality" \notin DOMAIN p
            /\ selected_orts # <<>>
                  => /\ "municipality" \in DOMAIN p
                     /\ p["municipality"] = JoinedInOrder(selected_orts)

\* C9 as stated: every search sends exactly one request, with those parameters
C9_ExactlyOneRequest ==
    /\ \A s \in SearchIds : Finished(s) => Cardinality(RequestsOf(s)) = 1
    /\ C9_Params

\* C9 amended: a search sends at most one request, exactly one once its
\* history write has succeeded and the call was made, none when the write
\* failed; the parameters are those of the claim
C9_AtMostOneRequest ==
    /\ \A s \in SearchIds :
          /\ Cardinality(RequestsOf(s)) <= 1
          /\ (Saved(s) /\ workers[s].pc # "api_search") => Cardinality(RequestsOf(s)) = 1
          /\ workers[s].exc = "OperationalError" => RequestsOf(s) = {}
    /\ C9_Params

\* C9 witness: two locations joined in a request, and a search that sent none
C9_Witness ==
    /\ Len(selected_orts) = 2 /\ selected_orts[1] # selected_orts[2]
    /\ \E s, t \in SearchIds :
          /\ Finished(s) /\ RequestsOf(s) = {}
          /\ Finished(t) /\ Cardinality(RequestsOf(t)) = 1
    /\ \E i \in DOMAIN requests :
          requests[i].params["municipality"] = selected_orts[1] \o <<",">> \o selected_orts[2]


(***************************************************************************)
(* Claims on the store, the orchestrator and the threads.                  *)
(***************************************************************************)
\* what list_saved_jobs() with no status filter returns on a table
Listed(table) == get_saved_jobs(table, "None")

\* the step is a call of delete_job
DeleteStep == db_calls' = db_calls + 1 /\ db_call'.op = "delete_job"

\* C11: a delete_job of an id that is not saved leaves the table, and so what
\* list_saved_jobs() returns, as it was, and raises nothing of its own; a
\* delete_job of a saved id removes the entry of that id and no other entry
C11_DeleteOnlyThatId ==
    [][DeleteStep =>
         LET id == db_call'.job["id"]
         IN  /\ ~HoldsKey(saved_jobs, id)
                   => /\ saved_jobs' = saved_jobs
                      /\ Listed(saved_jobs') = Listed(saved_jobs)
             /\ (HoldsKey(saved_jobs, id) /\ db_call'.exc = "none")
                   => /\ Listed(saved_jobs') =
                            SelectSeq(Listed(saved_jobs), LAMBDA j : j["id"] # id)
                      /\ Len(Listed(saved_jobs')) = Len(Listed(saved_jobs)) - 1
             /\ db_call'.exc = "none" => ~HoldsKey(saved_jobs', id)]_vars

\* C11 witness: an id was saved beside another and deleted, and the delete_job
\* of that id was then called again with the other entry still listed
C11_Witness ==
    /\ db_call.op = "delete_job" /\ db_call.exc = "none" /\ ~db_call.existed
    /\ Len(db_log) = 4
    /\ db_log[3] = Logged("delete_job", db_call.job["id"], "None")
    /\ db_log[4] = db_log[3]
    /\ \E i \in 1..2 : db_log[i].op = "save_job" /\ db_log[i].job_id = db_call.job["id"]
    /\ Len(Listed(saved_jobs)) = 1


\* the last call was a get_search_history that returned
HistoryListed == db_call.op = "get_search_history" /\ db_call.exc = "none"

\* C12: what get_search_history(limit) returns has at most limit entries, and
\* no entry has a later timestamp than an entry before it
C12_HistoryLimitedAndOrdered ==
    HistoryListed =>
        /\ Len(db_call.result) <= db_call.limit
        /\ \A i, j \in DOMAIN db_call.result :
              i < j => db_call.result[i].timestamp >= db_call.result[j].timestamp

\* C12 witness: three searches recorded at three different seconds, listed
\* with limit 2: the two latest come back, the later one first
C12_Witness ==
    /\ HistoryListed /\ db_call.limit = 2
    /\ Len(search_history) = 3
    /\ search_history[1].timestamp < search_history[2].timestamp
    /\ search_history[2].timestamp < search_history[3].timestamp
    /\ Len(db_call.result) = 2
    /\ db_call.result[1].timestamp = search_history[3].timestamp
    /\ db_call.result[2].timestamp = search_history[2].timestamp


\* the (query, locations, timestamp) of the searches recorded
Recorded(table) ==
    {<<table[i].query, JsonValue(table[i].locations), table[i].timestamp>> :
        i \in DOMAIN table}

\* the (query, locations, timestamp) of the entries listed
Entries(listed) ==
    {<<listed[i].query, listed[i].locations, listed[i].timestamp>> : i \in DOMAIN listed}

\* C14: listed with a limit that cuts nothing, the history has one entry for
\* every different (query, locations, timestamp) recorded and no more: searches
\* equal in all three are one entry, searches of one query and location list
\* recorded at different seconds are entries of their own
C14_DistinctByWholeRow ==
    (HistoryListed /\ db_call.limit >= Len(search_history)) =>
        /\ Entries(db_call.result) = Recorded(search_history)
        /\ Len(db_call.result) = Cardinality(Recorded(search_history))
        /\ \A i, j \in DOMAIN search_history :
              (/\ search_history[i].query = search_history[j].query
               /\ search_history[i].locations = search_history[j].locations
               /\ search_history[i].timestamp # search_history[j].timestamp)
                  => \E m, n \in DOMAIN db_call.result :
                        /\ m # n
                        /\ db_call.result[m].query = search_history[i].query
                        /\ db_call.result[n].query = search_history[i].query
                        /\ db_call.result[m].timestamp = search_history[i].timestamp
                        /\ db_call.result[n].timestamp = search_history[j].timestamp

\* C14 witness: one query and location list recorded twice in one second and
\* once more a second later: two entries are listed
C14_Witness ==
    /\ HistoryListed /\ db_call.limit = 15
    /\ Len(search_history) = 3
    /\ \A i \in 2..3 : /\ search_history[i].query = search_history[1].query
                       /\ search_history[i].locations = search_history[1].locations
    /\ search_history[2].timestamp = search_history[1].timestamp
    /\ search_history[3].timestamp > search_history[1].timestamp
    /\ Len(db_call.result) = 2


\* the status the last returned save_job gave the id, "None" when the id was
\* never saved or was deleted since
CurrentStatus(log, job_id) ==
    LET calls == {i \in DOMAIN log : log[i].job_id = job_id}
    IN  IF calls = {} THEN "None"
        ELSE LET last == CHOOSE i \in calls : \A k \in calls : k <= i
             IN  IF log[last].op = "save_job" THEN log[last].status ELSE "None"

\* the ids of the jobs listed
ListedIds(listed) == {listed[i]["id"] : i \in DOMAIN listed}

\* C13: get_saved_jobs(status) returns one entry for every id whose last
\* save_job gave it that status and that was not deleted since, and no other
C13_ListedByCurrentStatus ==
    (db_call.op = "get_saved_jobs" /\ db_call.exc = "none" /\ db_call.status # "None") =>
        /\ ListedIds(db_call.result) =
              {j["id"] : j \in {k \in SampleJobs :
                                   CurrentStatus(db_log, k["id"]) = db_call.status}}
        /\ Len(db_call.result) = Cardinality(ListedIds(db_call.result))

\* C13 witness: two ids saved with one status, the first saved again with
\* another status; listing the first status returns the second id alone
C13_Witness ==
    /\ db_call.op = "get_saved_jobs" /\ db_call.exc = "none"
    /\ Len(db_log) = 3
    /\ \A i \in 1..3 : db_log[i].op = "save_job"
    /\ db_log[3].job_id = db_log[1].job_id /\ db_log[2].job_id # db_log[1].job_id
    /\ db_log[1].status = db_call.status /\ db_log[2].status = db_call.status
    /\ db_log[3].status # db_call.status
    /\ ListedIds(db_call.result) = {db_log[2].job_id}


\* C15: every search whose thread has ended and whose callbacks have run has
\* delivered one notification: the results when nothing was raised, an error
\* when the history write, the client or the conversion raised
C15_OneNotificationPerSearch ==
    \A s \in SearchIds :
        Finished(s) =>
            \/ workers[s].exc = "none" /\ ui[s].notified = "results"
            \/ workers[s].exc # "none" /\ ui[s].notified = "error"

\* the step is apply_filters: the filter menu's callback
FilterChange ==
    /\ current_filters' \in SampleMenuFilters
    /\ UNCHANGED <<entry_yrke, workers, after_queue, warnings>>
    /\ current_filters' # current_filters \/ results_area' # results_area
          \/ history_frame' # history_frame

Assigns(s) == workers[s].pc = "convert" /\ workers'[s].pc = "after_results"

\* C17: a search can be started whenever the entry holds a query, another
\* search in flight or not; all_jobs changes only when a worker assigns it and
\* is then that worker's list, so that after overlapping searches it is the
\* list of the worker that assigned last
C17_LastAssignmentWins ==
    /\ []((Strip(entry_yrke) # <<>> /\ Started # SearchIds) => ENABLED start_search)
    /\ [][\A s \in SearchIds : Assigns(s) => all_jobs' = workers'[s].jobs]_vars
    /\ [][all_jobs' # all_jobs => \E s \in SearchIds : Assigns(s)]_vars
    /\ []((\A s \in SearchIds : Finished(s) /\ workers[s].assigned)
            => \E s \in SearchIds : all_jobs = workers[s].jobs)

\* C17 witness: both searches succeeded with different lists and the list
\* held is that of the search started first, which therefore was in flight
\* when the second was started and assigned after the second did
C17_Witness ==
    /\ \A s \in SearchIds : Finished(s) /\ workers[s].assigned
    /\ workers[1].jobs # workers[2].jobs
    /\ all_jobs = workers[1].jobs

\* the step is taken by the thread of a search
WorkerThreadStep ==
    \E s \in SearchIds : workers[s].pc # "idle" /\ workers'[s].pc # workers[s].pc

\* C18: no step of a worker thread changes what the UI thread reads and
\* writes: the entry, the locations, the filters, all_jobs and the widgets
C18_WorkerLeavesUiStateAlone ==
    [][WorkerThreadStep =>
          UNCHANGED <<entry_yrke, selected_orts, current_filters, all_jobs, btn_sok,
                      results_area, history_frame>>]_vars

\* C19: with no search in flight and no callback pending, a results area
\* showing results shows all_jobs
C19_ShownIsAllJobs ==
    (/\ InFlight = {}
     /\ after_queue = <<>>
     /\ results_area.kind \in {"results", "noresults"})
        => results_area.jobs = all_jobs


\* C17 as stated: when the thread of the last of the overlapping searches
\* ends, all having succeeded, all_jobs is the list of that search
C17_LastCompletedWins ==
    [][\A s \in SearchIds :
          (/\ workers[s].pc # "done" /\ workers'[s].pc = "done"
           /\ \A t \in SearchIds : workers'[t].pc = "done" /\ workers'[t].assigned)
              => all_jobs' = workers'[s].jobs]_vars

===========================================================================
